---- MODULE Spec2Model ----
(***************************************************************************)
(* A model of the agent-conversation gateway of the OneLastAI platform:    *)
(*   - AgentChatConsumer (agents/consumers.py): the handling of a          *)
(*     user_message on a WebSocket connection, its rate check, its writes  *)
(*     to the conversation store and the events it sends;                  *)
(*   - UserSubscription / WebhookService (payments): the usage counter and *)
(*     the billing events that reset it;                                   *)
(*   - AgentManager (agents/engines/__init__.py): the agent instance pool; *)
(*   - AIServiceManager (ai_services/services.py): generate_response and   *)
(*     its response cache;                                                 *)
(*   - AgentEngine.process_message_stream and process_message with the     *)
(*     conversation they work on (agents/engines/base.py);                 *)
(*   - the consumers' connect and disconnect handlers, their rooms and the *)
(*     typing events sent through them (agents/consumers.py);              *)
(*   - rate_limit_websocket, AIResponseCache and                           *)
(*     WebSocketConnectionManager (agents/websocket_utils.py).             *)
(* Each component has its own specification over the shared variables; a   *)
(* component's specification leaves the other components' variables alone. *)
(***************************************************************************)
EXTENDS Integers, Sequences, FiniteSets, TLC

(***************************************************************************)
(* Bounds of the model.                                                    *)
(***************************************************************************)
\* user_message events received over all connections of the chat model
MaxRequests == 2
\* plan.api_requests_limit of the plan every modelled subscription is on
\* (payments/models.py:82 defaults it to 100; the model scales it down)
PlanLimit == 1
\* max_input_length of BaseAgentEngine.validate_input (agents/engines/base.py:247
\* defaults it to 10000; the model scales it down)
MaxInputLength == 1
\* messages stored in the conversation whose history is read, and the
\* largest limit a history is read with
MaxMessages == 4
MaxLimit == 3
\* the number of recent messages _prepare_messages takes
\* (agents/engines/base.py:465 takes 10; the model scales it down)
HistoryWindow == 2
\* AgentManager._max_cache_size (agents/engines/__init__.py:130 sets it to 50;
\* the model scales it down)
MaxCacheSize == 2
\* get_agent calls made on the agent manager
MaxPoolCalls == 5
\* generate_response calls made on the service manager
MaxCalls == 3
\* process_message_stream generators created, and chunks a provider streams
MaxStreams == 2
MaxChunks == 3
\* process_message calls made on the agent engines
MaxEngineCalls == 3
\* the limit L of rate_limit_websocket('L/min') (agents/websocket_utils.py:24
\* defaults the rate to '10/min'; the model scales it down)
RateLimit == 2
\* the timeout of the limiter's cache entry in clock ticks
\* (agents/websocket_utils.py:41 sets it to 60 seconds; the model scales it down)
RateWindow == 2
\* calls made on the rate-limited handler, and clock ticks that pass
MaxLimitedCalls == 4
MaxTicks == 3
\* typing events a session is sent through its room while it is connected
MaxTyping == 2
\* calls made on the WebSocketConnectionManager
MaxManagerCalls == 4

(***************************************************************************)
(* The chat consumer: connections, users, agents.                          *)
(***************************************************************************)
Conns == {"c1", "c2"}
Users == {"u1", "u2"}
\* agent ids a connection's URL may name; Agent.objects.get(id, is_active)
\* finds the ones in ActiveAgents
AgentIds == {"a1", "a0"}
ActiveAgents == {"a1"}

\* message texts a client sends: sequences of characters, " " is whitespace
Contents == { <<>>, <<" ">>, <<"x">>, <<" ", "x", " ">> }
\* a message text longer than the input limit
LongContents == { <<" ", "x", "x", " ">> }
\* conversation_id of a user_message: 0 is "none given"; id 1 names the first
\* conversation once it exists and no conversation before
ConvArgs == 0..1

\* the text generate_ai_response returns when the service raised
ApologyText == <<"E">>
\* the text the service returns
ReplyText == <<"r">>

VARIABLES
    conn,        \* conn[c]: the user and agent_id of connection c (self.user, self.agent_id)
    pc,          \* pc[c]: where connection c's handle_user_message is suspended
    cur,         \* cur[c]: the user_message c is handling, or handled last, and the handler's locals
    nextReq,     \* the number of the next user_message received (receipt order over all connections)
    sub,         \* sub[u]: user u's UserSubscription row
    convs,       \* the AgentConversation table with each conversation's messages; convs[i] has id i
    outbox,      \* outbox[c]: the events sent to c's client since its latest user_message, in order
    dispatches   \* dispatches[u]: calls handed to the AI service for u since the last reset_usage

VARIABLES
    agentCache,  \* AgentManager._agent_cache: the cached agent ids in the dict's (insertion) order
    poolClock,   \* the number of get_agent calls made
    insertedAt,  \* insertedAt[a]: the call that inserted a's cached instance, 0 if a is not cached
    usedAt,      \* usedAt[a]: the latest call that returned a's cached instance, 0 if not cached
    poolLast     \* what the latest get_agent call did

chatVars == <<conn, pc, cur, nextReq, sub, convs, outbox, dispatches>>

poolVars == <<agentCache, poolClock, insertedAt, usedAt, poolLast>>

VARIABLES
    respCache,   \* django.core.cache: cache key -> the response stored under it, or None
    calls,       \* the generate_response calls in progress or last finished, per caller
    callCount,   \* generate_response calls begun so far
    stream,      \* the process_message_stream generator: its position and locals
    streamStore, \* the Message rows written by process_message_stream
    streamCount  \* process_message_stream generators created so far

VARIABLES
    sessions,    \* the consumer instances: one per WebSocket connection attempt, with the
                 \* channel-layer events waiting for each and the events sent to its client
    groups       \* the channel layer's groups: the <<room, channel>> memberships

cacheVars == <<respCache, calls, callCount>>

VARIABLES
    histLog,     \* the Message rows of one conversation, in the order they were created
    histResult   \* the last context read for a generation

sessionVars == <<sessions, groups>>

VARIABLES
    wsCache,     \* django.core.cache as AIResponseCache uses it: cache key -> response, or None
    wsLast       \* the last call made on the AIResponseCache

historyVars == <<histLog, histResult>>

wsCacheVars == <<wsCache, wsLast>>

streamVars == <<stream, streamStore, streamCount>>

VARIABLES
    engConvs,    \* the Conversation table (ai_services) with each conversation's messages; engConvs[i] has id i
    engLast      \* the latest process_message call on an agent engine and what it did

engineVars == <<engConvs, engLast>>

VARIABLES
    rlCache,     \* django.core.cache as rate_limit_websocket uses it: per user, the entry of key ws_rate_limit_{user.id}_{func}
    rlCalls,     \* rlCalls[k]: the call of the wrapped handler that worker k is making, or made last
    rlClock,     \* the time, in ticks
    rlCount      \* calls of the wrapped handler begun so far

limiterVars == <<rlCache, rlCalls, rlClock, rlCount>>

VARIABLES
    active_connections, \* WebSocketConnectionManager.active_connections: user id -> channel name -> connection info
    mgrClock,           \* the calls made on the manager so far; the event loop's time advances with each
    mgrOpen,            \* the <<user id, channel name>> pairs added and not removed since
    mgrLast             \* the latest call made on the manager

managerVars == <<active_connections, mgrClock, mgrOpen, mgrLast>>

vars == <<chatVars, poolVars, cacheVars, streamVars, sessionVars, historyVars, wsCacheVars, engineVars, limiterVars, managerVars>>

\* the variables of the other components, which a step of one leaves alone
notChat == <<poolVars, cacheVars, streamVars, sessionVars, historyVars, wsCacheVars, engineVars, limiterVars, managerVars>>

notPool == <<chatVars, cacheVars, streamVars, sessionVars, historyVars, wsCacheVars, engineVars, limiterVars, managerVars>>

notCache == <<chatVars, poolVars, streamVars, sessionVars, historyVars, wsCacheVars, engineVars, limiterVars, managerVars>>

notStream == <<chatVars, poolVars, cacheVars, sessionVars, historyVars, wsCacheVars, engineVars, limiterVars, managerVars>>

notSession == <<chatVars, poolVars, cacheVars, streamVars, historyVars, wsCacheVars, engineVars, limiterVars, managerVars>>

notHistory == <<chatVars, poolVars, cacheVars, streamVars, sessionVars, wsCacheVars, engineVars, limiterVars, managerVars>>

notWsCache == <<chatVars, poolVars, cacheVars, streamVars, sessionVars, historyVars, engineVars, limiterVars, managerVars>>

notEngine == <<chatVars, poolVars, cacheVars, streamVars, sessionVars, historyVars, wsCacheVars, limiterVars, managerVars>>

notLimiter == <<chatVars, poolVars, cacheVars, streamVars, sessionVars, historyVars, wsCacheVars, engineVars, managerVars>>

notManager == <<chatVars, poolVars, cacheVars, streamVars, sessionVars, historyVars, wsCacheVars, engineVars, limiterVars>>

\* str.strip(): leading and trailing whitespace removed
RECURSIVE LStrip(_)
LStrip(s) ==
    IF s # <<>> /\ Head(s) = " " THEN LStrip(Tail(s)) ELSE s

RECURSIVE RStrip(_)
RStrip(s) ==
    IF s # <<>> /\ s[Len(s)] = " " THEN RStrip(SubSeq(s, 1, Len(s) - 1)) ELSE s

Strip(s) == RStrip(LStrip(s))

\* BaseAgentEngine.validate_input, which the engines' process_message calls;
\* the chat consumer does not call it
validate_input(message) ==
    /\ message # <<>> /\ Strip(message) # <<>>
    /\ Len(message) <= MaxInputLength

\* a user_message as received: what the handler was given and, filled in as
\* it runs, the handler's locals and what became of the message
NewRequest(r, text, convArg) ==
    [req |-> r, content |-> text, convArg |-> convArg, outcome |-> "pending",
     conv |-> 0, created |-> FALSE, response |-> <<>>, dispatched |-> FALSE,
     sentAtCheck |-> -1]

NoRequest ==
    [req |-> 0, content |-> <<>>, convArg |-> 0, outcome |-> "none",
     conv |-> 0, created |-> FALSE, response |-> <<>>, dispatched |-> FALSE,
     sentAtCheck |-> -1]

ActiveSub == [exists |-> TRUE, status |-> "active", ended |-> FALSE, used |-> 0]

NoSub == [exists |-> FALSE, status |-> "none", ended |-> FALSE, used |-> 0]

\* Connection c1 is user u1's with an active agent. Connection c2 is u1's
\* second connection (to the same agent or to an inactive one), or it is
\* user u2's, who has a subscription or none.
InitChat ==
    /\ \E u \in Users, a \in AgentIds, b \in BOOLEAN :
          /\ b => u = "u2"
          /\ a \notin ActiveAgents => u = "u1"
          /\ conn = [c \in Conns |->
                       IF c = "c1" THEN [user |-> "u1", agent |-> "a1"]
                                   ELSE [user |-> u, agent |-> a]]
          /\ sub = [v \in Users |-> IF v = "u1" \/ b THEN ActiveSub ELSE NoSub]
    /\ pc = [c \in Conns |-> "idle"]
    /\ cur = [c \in Conns |-> NoRequest]
    /\ nextReq = 1
    /\ convs = <<>>
    /\ outbox = [c \in Conns |-> <<>>]
    /\ dispatches = [u \in Users |-> 0]

\* send_error(error_message): one error event to the client
ErrorEvent(kind, r) == [type |-> "error", kind |-> kind, req |-> r, conv |-> 0]

is_active_StatusOnly(s) == s.status = "active"

\* UserSubscription.is_active
is_active(s) == s.status = "active" /\ ~s.ended

\* UserSubscription.can_use_api
can_use_api(s) == is_active(s) /\ s.used < PlanLimit

\* AgentChatConsumer.check_api_limits
check_api_limits(u) ==
    IF ~sub[u].exists THEN FALSE ELSE can_use_api(sub[u])

PrependMessage(conv, m) ==
    [convs EXCEPT ![conv].messages = <<m>> \o @]

\* Message.objects.create(conversation, content, sender): the row is appended
\* to the conversation's messages
AppendMessage(conv, m) ==
    [convs EXCEPT ![conv].messages = Append(@, m)]

Finish_EventsFirst(c, outcome, events) ==
    /\ pc' = [pc EXCEPT ![c] = "idle"]
    /\ cur' = [cur EXCEPT ![c].outcome = outcome]
    /\ outbox' = [outbox EXCEPT ![c] = events \o @]

\* the handler returns: the connection is ready for its next message
Finish(c, outcome, events) ==
    /\ pc' = [pc EXCEPT ![c] = "idle"]
    /\ cur' = [cur EXCEPT ![c].outcome = outcome]
    /\ outbox' = [outbox EXCEPT ![c] = @ \o events]

Fail_ClosesSession(c) ==
    /\ pc' = [pc EXCEPT ![c] = "closed"]
    /\ cur' = [cur EXCEPT ![c].outcome = "failed"]
    /\ outbox' = [outbox EXCEPT ![c] = Append(@, ErrorEvent("failed", cur[c].req))]
    /\ UNCHANGED <<conn, nextReq, sub, convs, dispatches>>

\* except Exception as e: send_error('Failed to process message: ...')
Fail(c) ==
    /\ Finish(c, "failed", <<ErrorEvent("failed", cur[c].req)>>)
    /\ UNCHANGED <<conn, nextReq, sub, convs, dispatches>>

Reject_CountsTheAttempt(c, rec, kind) ==
    /\ cur' = [cur EXCEPT ![c] = rec]
    /\ outbox' = [outbox EXCEPT ![c] = <<ErrorEvent(kind, rec.req)>>]
    /\ sub' = [sub EXCEPT ![conn[c].user].used = @ + 1]
    /\ UNCHANGED <<pc, convs, dispatches>>

\* await self.send_error(...); return -- before anything was written
Reject(c, rec, kind) ==
    /\ cur' = [cur EXCEPT ![c] = rec]
    /\ outbox' = [outbox EXCEPT ![c] = <<ErrorEvent(kind, rec.req)>>]
    /\ UNCHANGED <<pc, sub, convs, dispatches>>

\* receive / handle_user_message through the rate check: the text is
\* stripped; an empty text, an unknown or inactive agent and a denial by
\* check_api_limits are each answered with an error and the handler returns.
\* (Nothing the handler does before the rate check is visible to another
\* connection, so its first suspension point in the model is after it. A
\* connection's messages are handled one at a time: receive awaits the
\* handler.)
Receive(c, content, convArg) ==
    /\ pc[c] = "idle"
    /\ nextReq <= MaxRequests
    /\ nextReq' = nextReq + 1
    /\ UNCHANGED conn
    /\ LET u == conn[c].user
           text == Strip(content)
           rec == NewRequest(nextReq, text, convArg)
       IN IF text = <<>>
          THEN Reject(c, [rec EXCEPT !.outcome = "invalid"], "empty")
          ELSE IF conn[c].agent \notin ActiveAgents
          THEN Reject(c, [rec EXCEPT !.outcome = "no_agent"], "agent_not_found")
          ELSE IF ~check_api_limits(u)
          THEN Reject(c, [rec EXCEPT !.outcome = "quota",
                                     !.sentAtCheck = dispatches[u]], "quota")
          ELSE /\ cur' = [cur EXCEPT ![c] = [rec EXCEPT !.sentAtCheck = dispatches[u]]]
               /\ outbox' = [outbox EXCEPT ![c] = <<>>]
               /\ pc' = [pc EXCEPT ![c] = "get_conversation"]
               /\ UNCHANGED <<sub, convs, dispatches>>
    /\ UNCHANGED notChat

FindConversation_Latest(id, u, a) ==
    IF id \in 1..Len(convs) /\ convs[id].user = u /\ convs[id].agent = a
    THEN id
    ELSE LET mine == {i \in 1..Len(convs) : convs[i].user = u /\ convs[i].agent = a}
         IN IF mine = {} THEN 0 ELSE CHOOSE i \in mine : \A j \in mine : j <= i

\* AgentConversation.objects.get(id=conversation_id, user=self.user, agent=agent):
\* the id of the conversation, 0 for DoesNotExist or no id given
FindConversation(id, u, a) ==
    IF id \in 1..Len(convs) /\ convs[id].user = u /\ convs[id].agent = a
    THEN id ELSE 0

\* conversation = await self.get_or_create_conversation(agent, conversation_id)
GetOrCreateConversation(c, dbOk) ==
    /\ pc[c] = "get_conversation"
    /\ IF ~dbOk THEN Fail(c)
       ELSE LET u == conn[c].user
                a == conn[c].agent
                found == FindConversation(cur[c].convArg, u, a)
            IN /\ IF found # 0
                  THEN /\ cur' = [cur EXCEPT ![c].conv = found]
                       /\ UNCHANGED convs
                  ELSE /\ convs' = Append(convs, [user |-> u, agent |-> a,
                                                  createdBy |-> cur[c].req,
                                                  messages |-> <<>>])
                       /\ cur' = [cur EXCEPT ![c].conv = Len(convs) + 1,
                                             ![c].created = TRUE]
               /\ pc' = [pc EXCEPT ![c] = "save_user"]
               /\ UNCHANGED <<conn, nextReq, sub, outbox, dispatches>>
    /\ UNCHANGED notChat

\* user_message = await self.save_message(conversation, message_content, 'user')
\* and the agent_typing event
SaveUserMessage(c, dbOk) ==
    /\ pc[c] = "save_user"
    /\ IF ~dbOk THEN Fail(c)
       ELSE LET r == cur[c].req IN
            /\ convs' = AppendMessage(cur[c].conv,
                          [sender |-> "user", req |-> r, conn |-> c,
                           content |-> cur[c].content])
            /\ outbox' = [outbox EXCEPT ![c] =
                             Append(@, [type |-> "agent_typing", kind |-> "", req |-> r, conv |-> 0])]
            /\ pc' = [pc EXCEPT ![c] = "generate"]
            /\ UNCHANGED <<conn, cur, nextReq, sub, dispatches>>
    /\ UNCHANGED notChat

\* ai_response = await self.generate_ai_response(...): the history is read
\* and the call is handed to the AI service (asyncio.to_thread), which
\* returns its text or raises; generate_ai_response catches every error, of
\* the history read and of the service, and returns the apology text instead.
\* (The response is a local of the handler: how long the service takes is the
\* time until the handler's next step, SaveAgentMessage.)
Generate(c, dbOk, ok) ==
    /\ pc[c] = "generate"
    /\ IF ~dbOk
       THEN /\ cur' = [cur EXCEPT ![c].response = ApologyText]
            /\ UNCHANGED dispatches
       ELSE /\ dispatches' = [dispatches EXCEPT ![conn[c].user] = @ + 1]
            /\ cur' = [cur EXCEPT ![c].dispatched = TRUE,
                                  ![c].response = IF ok THEN ReplyText ELSE ApologyText]
    /\ pc' = [pc EXCEPT ![c] = "save_ai"]
    /\ UNCHANGED <<conn, nextReq, sub, convs, outbox>>
    /\ UNCHANGED notChat

\* ai_message = await self.save_message(conversation, ai_response, 'agent')
SaveAgentMessage(c, dbOk) ==
    /\ pc[c] = "save_ai"
    /\ IF ~dbOk THEN Fail(c)
       ELSE /\ convs' = AppendMessage(cur[c].conv,
                          [sender |-> "agent", req |-> cur[c].req, conn |-> c,
                           content |-> cur[c].response])
            /\ pc' = [pc EXCEPT ![c] = "increment"]
            /\ UNCHANGED <<conn, cur, nextReq, sub, outbox, dispatches>>
    /\ UNCHANGED notChat

\* AgentChatConsumer.increment_api_usage: api_requests_used += 1 and save
increment_api_usage(u) ==
    IF sub[u].exists THEN [sub EXCEPT ![u].used = @ + 1] ELSE sub

\* await self.increment_api_usage(self.user) and the agent_message event
IncrementAndSend(c, dbOk) ==
    /\ pc[c] = "increment"
    /\ IF ~dbOk THEN Fail(c)
       ELSE /\ sub' = increment_api_usage(conn[c].user)
            /\ Finish(c, "completed",
                      <<[type |-> "agent_message", kind |-> "", req |-> cur[c].req,
                         conv |-> cur[c].conv]>>)
            /\ UNCHANGED <<conn, nextReq, convs, dispatches>>
    /\ UNCHANGED notChat

\* UserSubscription.reset_usage, called by
\* WebhookService._handle_invoice_payment_succeeded after it set the
\* subscription active with its new period
InvoicePaymentSucceeded(u) ==
    /\ sub[u].exists
    /\ sub' = [sub EXCEPT ![u] = ActiveSub]
    /\ dispatches' = [dispatches EXCEPT ![u] = 0]
    /\ UNCHANGED <<conn, pc, cur, nextReq, convs, outbox>>
    /\ UNCHANGED notChat

\* WebhookService._handle_invoice_payment_failed
InvoicePaymentFailed(u) ==
    /\ sub[u].exists
    /\ sub' = [sub EXCEPT ![u].status = "past_due"]
    /\ UNCHANGED <<conn, pc, cur, nextReq, convs, outbox, dispatches>>
    /\ UNCHANGED notChat

\* time passes current_period_end
PeriodElapses(u) ==
    /\ sub[u].exists
    /\ ~sub[u].ended
    /\ sub' = [sub EXCEPT ![u].ended = TRUE]
    /\ UNCHANGED <<conn, pc, cur, nextReq, convs, outbox, dispatches>>
    /\ UNCHANGED notChat

(***************************************************************************)
(* The agent instance pool: AgentManager.                                  *)
(***************************************************************************)
\* agent ids of AgentFactory._agents, and one id that is not registered
RegisteredAgents == {"neochat", "personax", "memora", "carebot"}
PoolAgentIds == RegisteredAgents \cup {"unknown"}

NoPoolCall == [call |-> "none", agent |-> "", evicted |-> {}, lru |-> "", oldest |-> ""]

InitPool ==
    /\ agentCache = <<>>
    /\ poolClock = 0
    /\ insertedAt = [a \in PoolAgentIds |-> 0]
    /\ usedAt = [a \in PoolAgentIds |-> 0]
    /\ poolLast = NoPoolCall

\* the keys of the dict
Keys(cache) == {cache[i] : i \in 1..Len(cache)}

\* del cache[key]
Remove(cache, key) == SelectSeq(cache, LAMBDA k : k # key)

oldest_key_Newest(cache) == cache[Len(cache)]

\* oldest_key = next(iter(self._agent_cache)): the first key of the dict,
\* which keeps its keys in insertion order
oldest_key(cache) == Head(cache)

MakeRoom_Never(cache) == cache

\* if len(self._agent_cache) >= self._max_cache_size: del the oldest entry
MakeRoom(cache) ==
    IF Len(cache) >= MaxCacheSize THEN Remove(cache, oldest_key(cache)) ELSE cache

AfterFailedCreate_RoomMade(cache) == MakeRoom(cache)

\* the dict after AgentFactory.create_agent raised: get_agent creates the
\* agent before it makes room in the dict, so the exception leaves it
\* before the dict is touched
AfterFailedCreate(cache) == cache

\* the cached id whose stamp is smallest
Earliest(stamp) ==
    CHOOSE a \in Keys(agentCache) : \A b \in Keys(agentCache) : stamp[a] <= stamp[b]

\* AgentFactory.create_agent raises ValueError for an id that is not
\* registered; the agent class's constructor raises for an agent that is not
\* found or inactive in the database
CreateAgentRaises(a, inDatabase) == a \notin RegisteredAgents \/ ~inDatabase

\* AgentManager.get_agent(agent_id)
GetAgent(a, inDatabase) ==
    /\ poolClock < MaxPoolCalls
    /\ poolClock' = poolClock + 1
    /\ IF a \in Keys(agentCache)
       THEN \* cache hit: the instance is returned, the dict is not touched
            /\ usedAt' = [usedAt EXCEPT ![a] = poolClock + 1]
            /\ poolLast' = [NoPoolCall EXCEPT !.call = "hit", !.agent = a]
            /\ UNCHANGED <<agentCache, insertedAt>>
       ELSE IF CreateAgentRaises(a, inDatabase)
       THEN /\ poolLast' = [NoPoolCall EXCEPT !.call = "raised", !.agent = a]
            /\ agentCache' = AfterFailedCreate(agentCache)
            /\ UNCHANGED <<insertedAt, usedAt>>
       ELSE LET kept == MakeRoom(agentCache)
                gone == Keys(agentCache) \ Keys(kept)
            IN /\ agentCache' = Append(kept, a)
               /\ insertedAt' = [b \in PoolAgentIds |->
                                   IF b = a THEN poolClock + 1
                                   ELSE IF b \in gone THEN 0 ELSE insertedAt[b]]
               /\ usedAt' = [b \in PoolAgentIds |->
                                IF b = a THEN poolClock + 1
                                ELSE IF b \in gone THEN 0 ELSE usedAt[b]]
               /\ poolLast' = [call |-> "inserted", agent |-> a, evicted |-> gone,
                               lru |-> IF gone = {} THEN "" ELSE Earliest(usedAt),
                               oldest |-> IF gone = {} THEN "" ELSE Earliest(insertedAt)]
    /\ UNCHANGED notPool

\* AgentManager.clear_cache
ClearCache ==
    /\ agentCache' = <<>>
    /\ insertedAt' = [a \in PoolAgentIds |-> 0]
    /\ usedAt' = [a \in PoolAgentIds |-> 0]
    /\ poolLast' = [NoPoolCall EXCEPT !.call = "cleared"]
    /\ UNCHANGED poolClock
    /\ UNCHANGED notPool

NextPool ==
    \/ \E a \in PoolAgentIds, inDatabase \in BOOLEAN : GetAgent(a, inDatabase)
    \/ ClearCache

(***************************************************************************)
(* The response cache and AIServiceManager.generate_response.              *)
(***************************************************************************)
Callers == {"k1", "k2"}
Providers == {"openai", "anthropic"}
Models == {"m"}
\* a message list of one user message (sent to generate_text) and a longer
\* one (sent to generate_chat)
MessageLists ==
    { << [role |-> "user", content |-> "hi"] >>,
      << [role |-> "system", content |-> "s"], [role |-> "user", content |-> "hi"] >> }

None == [type |-> "None"]
EmptyDict == [x \in {} |-> None]

\* what an adapter's generate_text / generate_chat returns: a dict with the
\* response's content (which may be empty) and the model and provider names
Payload(provider, model, content) ==
    [content |-> content, model |-> model, provider |-> provider]
PayloadContents == {"", "p"}
ErrorKinds == {"transient", "invalid_request", "quota"}

\* hashlib.md5(content.encode()).hexdigest(): injective on the modelled texts
md5(content) == <<"md5", content>>

\* BaseAIService.get_cache_key, called with str(messages)
get_cache_key(provider, model, messages) ==
    <<"ai_response", provider, model, md5(messages)>>

CacheKeys ==
    {get_cache_key(p, m, ms) : p \in Providers, m \in Models, ms \in MessageLists}

get_cached_response_Never(key) == None

\* BaseAIService.get_cached_response: cache.get(key)
get_cached_response(key) == respCache[key]

Truthy_ByContent(v) == v # None /\ v # EmptyDict /\ v.content # ""

\* "if cached_response:": None and the empty dict are false
Truthy(v) == v # None /\ v # EmptyDict

AfterError_RetryTransient(kind, attempts) ==
    IF kind = "transient" /\ attempts < 2 THEN "awaiting" ELSE "done"

\* where generate_response goes when the adapter raised on its attempt
\* number attempts: "except Exception as e: logger.error(...); raise"
AfterError(kind, attempts) == "done"

\* "if len(messages) == 1 and messages[0]['role'] == 'user'": generate_text,
\* else generate_chat
AdapterMethod(messages) ==
    IF Len(messages) = 1 /\ messages[1].role = "user"
    THEN "generate_text" ELSE "generate_chat"

NoCall ==
    [pc |-> "idle", key |-> <<>>, provider |-> "", model |-> "", use_cache |-> TRUE,
     method |-> "", liveAtStart |-> None, attempts |-> 0, result |-> None,
     raised |-> "", cacheError |-> "", stored |-> None]

InitCache ==
    /\ respCache = [key \in CacheKeys |-> None]
    /\ calls = [k \in Callers |-> NoCall]
    /\ callCount = 0

\* generate_response up to its first await: the service, the cache lookup.
\* The lookup is made outside the try block: when the cache backend raises
\* (cacheOk is false), the exception leaves generate_response.
BeginCall(k, provider, model, messages, use_cache, cacheOk) ==
    LET key == get_cache_key(provider, model, messages)
        cached_response == IF use_cache THEN get_cached_response(key) ELSE None
        call == [NoCall EXCEPT !.key = key, !.provider = provider, !.model = model,
                               !.use_cache = use_cache,
                               !.liveAtStart = respCache[key]]
    IN /\ calls[k].pc # "awaiting"
       /\ callCount < MaxCalls
       /\ callCount' = callCount + 1
       /\ calls' = [calls EXCEPT ![k] =
                      IF use_cache /\ ~cacheOk
                      THEN [call EXCEPT !.pc = "done", !.cacheError = "lookup"]
                      ELSE IF use_cache /\ Truthy(cached_response)
                      THEN [call EXCEPT !.pc = "done", !.result = cached_response]
                      ELSE [call EXCEPT !.pc = "awaiting",
                                        !.method = AdapterMethod(messages)]]
       /\ UNCHANGED respCache
       /\ UNCHANGED notCache

\* the adapter's generate_text / generate_chat returns a payload: it is
\* cached (timeout 3600) when caching is enabled, and returned. The store is
\* made inside the try block: when the cache backend raises (cacheOk is
\* false), "except Exception" logs the error and raises it again.
ProviderReturns(k, content, cacheOk) ==
    LET call == calls[k]
        response == Payload(call.provider, call.model, content)
        storeFails == call.use_cache /\ ~cacheOk
    IN /\ call.pc = "awaiting"
       /\ respCache' = IF call.use_cache /\ cacheOk
                       THEN [respCache EXCEPT ![call.key] = response]
                       ELSE respCache
       /\ calls' = [calls EXCEPT ![k] =
                      IF storeFails
                      THEN [call EXCEPT !.pc = "done", !.attempts = call.attempts + 1,
                                        !.cacheError = "store"]
                      ELSE [call EXCEPT !.pc = "done", !.attempts = call.attempts + 1,
                                        !.result = response,
                                        !.stored = respCache'[call.key]]]
       /\ UNCHANGED callCount
       /\ UNCHANGED notCache

\* the adapter raises AIServiceError (whatever went wrong at the provider)
ProviderRaises(k, kind) ==
    LET call == calls[k]
    IN /\ call.pc = "awaiting"
       /\ calls' = [calls EXCEPT ![k] =
                      [call EXCEPT !.pc = AfterError(kind, call.attempts + 1),
                                   !.attempts = call.attempts + 1,
                                   !.raised = kind]]
       /\ UNCHANGED <<respCache, callCount>>
       /\ UNCHANGED notCache

\* an entry's timeout elapses
Expire(key) ==
    /\ respCache[key] # None
    /\ respCache' = [respCache EXCEPT ![key] = None]
    /\ UNCHANGED <<calls, callCount>>
    /\ UNCHANGED notCache

NextCache ==
    \/ \E k \in Callers, p \in Providers, m \in Models, ms \in MessageLists,
          use_cache \in BOOLEAN, cacheOk \in BOOLEAN :
              BeginCall(k, p, m, ms, use_cache, cacheOk)
    \/ \E k \in Callers, content \in PayloadContents, cacheOk \in BOOLEAN :
          ProviderReturns(k, content, cacheOk)
    \/ \E k \in Callers, kind \in ErrorKinds : ProviderRaises(k, kind)
    \/ \E key \in CacheKeys : Expire(key)

(***************************************************************************)
(* AgentEngine.process_message_stream, an async generator, and the caller  *)
(* that iterates it (AgentManager.process_message_stream passes its items  *)
(* on unchanged).                                                          *)
(***************************************************************************)
Chunks == {"a", "b"}
StreamMessages == {"hi"}

NoStream ==
    [pc |-> "idle", user_message |-> "", full_response |-> <<>>, yielded |-> <<>>,
     ended |-> ""]

InitStream ==
    /\ stream = NoStream
    /\ streamStore = <<>>
    /\ streamCount = 0

\* Message.objects.create(conversation, role, content)
MessageRow(id, role, content) == [stream |-> id, role |-> role, content |-> content]

\* the rows one generator has written
RowsOf(id) == SelectSeq(streamStore, LAMBDA m : m.stream = id)

OnClose_SavePartial(store, id, user_message, full_response) ==
    store \o << MessageRow(id, "user", user_message),
                MessageRow(id, "assistant", full_response) >>

\* what the generator does when it is closed or cancelled at an await:
\* GeneratorExit and CancelledError are not Exceptions, so no handler of
\* process_message_stream runs and nothing is written
OnClose(store, id, user_message, full_response) == store

\* the caller creates the generator and asks for its first item: the
\* conversation is loaded or created and the messages are prepared
StartStream(user_message, dbOk) ==
    /\ stream.pc \in {"idle", "finished", "closed"}
    /\ streamCount < MaxStreams
    /\ streamCount' = streamCount + 1
    /\ stream' = IF dbOk
                 THEN [NoStream EXCEPT !.pc = "streaming", !.user_message = user_message]
                 ELSE [NoStream EXCEPT !.pc = "finished", !.user_message = user_message,
                                       !.yielded = << [error |-> TRUE] >>,
                                       !.ended = "start_error"]
    /\ UNCHANGED streamStore
    /\ UNCHANGED notStream

Accumulate_Overwrite(full_response, chunk) == <<chunk>>

\* full_response += chunk (a text is the sequence of its characters, a chunk
\* one character)
Accumulate(full_response, chunk) == Append(full_response, chunk)

OnProviderError_SavePartial(store, id, user_message, full_response) ==
    store \o << MessageRow(id, "user", user_message),
                MessageRow(id, "assistant", full_response) >>

\* what "except Exception" of process_message_stream writes when the
\* provider's stream raised: nothing, it only logs and yields the error
OnProviderError(store, id, user_message, full_response) == store

\* the provider streams a chunk: it is added to full_response and yielded
StreamChunk(chunk) ==
    /\ stream.pc = "streaming"
    /\ Len(stream.full_response) < MaxChunks
    /\ stream' = [stream EXCEPT !.full_response = Accumulate(@, chunk),
                                !.yielded = Append(@, [chunk |-> chunk])]
    /\ UNCHANGED <<streamStore, streamCount>>
    /\ UNCHANGED notStream

AfterStream_SignalBeforeSave(yielded, saved) ==
    IF saved THEN Append(yielded, [completed |-> TRUE])
    ELSE yielded \o << [completed |-> TRUE], [error |-> TRUE] >>

\* what is yielded once the provider's stream has ended: the completion
\* signal after _save_message returned, the error of "except Exception" when
\* it raised
AfterStream(yielded, saved) ==
    Append(yielded, IF saved THEN [completed |-> TRUE] ELSE [error |-> TRUE])

\* the provider's stream ends: _save_message writes the user message and the
\* response, then the completion signal is yielded; a failed write is caught
\* by "except Exception" and an error is yielded instead
StreamEnds(db) ==
    LET user == MessageRow(streamCount, "user", stream.user_message)
        assistant == MessageRow(streamCount, "assistant", stream.full_response)
    IN /\ stream.pc = "streaming"
       /\ streamStore' = CASE db = "ok" -> streamStore \o <<user, assistant>>
                           [] db = "fail_assistant" -> Append(streamStore, user)
                           [] OTHER -> streamStore
       /\ stream' = [stream EXCEPT !.pc = "finished",
                                   !.ended = IF db = "ok" THEN "completed" ELSE "db_error",
                                   !.yielded = AfterStream(@, db = "ok")]
       /\ UNCHANGED streamCount
       /\ UNCHANGED notStream

\* the provider's stream raises (AIServiceError): an error is yielded
StreamRaises ==
    /\ stream.pc = "streaming"
    /\ stream' = [stream EXCEPT !.pc = "finished", !.ended = "provider_error",
                                !.yielded = Append(@, [error |-> TRUE])]
    /\ streamStore' = OnProviderError(streamStore, streamCount, stream.user_message,
                                      stream.full_response)
    /\ UNCHANGED streamCount
    /\ UNCHANGED notStream

\* the caller goes away before the stream ends (its client disconnected, its
\* task was cancelled): the generator is closed where it is suspended
CloseStream ==
    /\ stream.pc = "streaming"
    /\ stream' = [stream EXCEPT !.pc = "closed"]
    /\ streamStore' = OnClose(streamStore, streamCount, stream.user_message,
                              stream.full_response)
    /\ UNCHANGED streamCount
    /\ UNCHANGED notStream

NextStream ==
    \/ \E m \in StreamMessages, dbOk \in BOOLEAN : StartStream(m, dbOk)
    \/ \E chunk \in Chunks : StreamChunk(chunk)
    \/ \E db \in {"ok", "fail_user", "fail_assistant"} : StreamEnds(db)
    \/ StreamRaises
    \/ CloseStream

(***************************************************************************)
(* Connecting and disconnecting: the connect and disconnect handlers of    *)
(* the four consumers, and the channel layer's groups.                     *)
(***************************************************************************)
SessionIds == {"s1", "s2"}
ConsumerKinds == {"chat", "voice", "dashboard", "community"}

\* the close code websocket_auth_required passes to close(); the decorator
\* is applied to no consumer
UnauthenticatedCloseCode == 4001
\* self.close() with no code argument
NoCloseCode == 0

NoSession ==
    [state |-> "new", kind |-> "chat", authenticated |-> FALSE, user |-> "u1",
     agent |-> "a1", room |-> <<>>, closeCode |-> NoCloseCode,
     disconnectRaised |-> FALSE, queue |-> <<>>, sent |-> <<>>, due |-> 0]

InitSession ==
    /\ sessions = [s \in SessionIds |-> NoSession]
    /\ groups = {}

\* self.room_group_name as connect builds it
room_group_name(kind, agent, user) ==
    CASE kind = "chat" -> <<"chat_agent_chat", agent, user>>
      [] kind = "voice" -> <<"voice_voice_chat", agent, user>>
      [] kind = "dashboard" -> <<"dashboard_dashboard", user>>
      [] OTHER -> <<"community_global">>

\* channel_layer.group_add(group, channel)
group_add(g, room, channel) == g \cup {<<room, channel>>}

group_discard_Nothing(g, room, channel) == g

\* channel_layer.group_discard(group, channel)
group_discard(g, room, channel) == g \ {<<room, channel>>}

\* the rooms a session's channel is a member of
RoomsOf(s) == {m[1] : m \in {n \in groups : n[2] = s}}

\* what connect sends once the connection is accepted: the chat consumer its
\* welcome, the dashboard consumer the dashboard data
WelcomeEvents(kind) ==
    CASE kind = "chat" -> << [type |-> "connection_established"] >>
      [] kind = "dashboard" -> << [type |-> "dashboard_update"] >>
      [] OTHER -> <<>>

\* connect of a consumer: an unauthenticated user, and on the voice consumer
\* a user without the voice feature, is closed (self.close(), no code) before
\* anything else; otherwise the channel joins the consumer's room, the
\* connection is accepted and the consumer's first event is sent
Connect(s, kind, agent, user, authenticated, voiceEnabled) ==
    /\ sessions[s].state \in {"new", "closed"}
    /\ LET session == [NoSession EXCEPT !.kind = kind, !.agent = agent, !.user = user,
                                        !.authenticated = authenticated]
           room == room_group_name(kind, agent, user)
       IN IF ~authenticated \/ (kind = "voice" /\ ~voiceEnabled)
          THEN /\ sessions' = [sessions EXCEPT ![s] =
                                 [session EXCEPT !.state = "rejected",
                                                 !.closeCode = NoCloseCode]]
               /\ UNCHANGED groups
          ELSE /\ sessions' = [sessions EXCEPT ![s] =
                                 [session EXCEPT !.state = "active", !.room = room,
                                                 !.sent = WelcomeEvents(kind)]]
               /\ groups' = group_add(groups, room, s)
    /\ UNCHANGED notSession

\* disconnect of a consumer: group_discard(self.room_group_name, channel).
\* A connection that was closed in connect never set room_group_name: its
\* disconnect handler raises AttributeError. The consumer is gone: the
\* events still waiting for it are dropped.
Disconnect(s) ==
    /\ sessions[s].state \in {"active", "rejected"}
    /\ IF sessions[s].room = <<>>
       THEN /\ sessions' = [sessions EXCEPT ![s].state = "closed",
                                            ![s].disconnectRaised = TRUE]
            /\ UNCHANGED groups
       ELSE /\ sessions' = [sessions EXCEPT ![s].state = "closed", ![s].queue = <<>>]
            /\ groups' = group_discard(groups, sessions[s].room, s)
    /\ UNCHANGED notSession

\* the channels that are members of a room
MembersOf(room) == {m[2] : m \in {n \in groups : n[1] = room}}

\* channel_layer.group_send(group, event): the event is put on the channel
\* of every member of the group. (from names the sending session; the event
\* itself carries only the user_id. due counts the typing events of other
\* sessions that a session was sent.)
group_send(room, event, from) ==
    [t \in SessionIds |->
        IF t \in MembersOf(room)
        THEN [sessions[t] EXCEPT !.queue = Append(@, event),
                                 !.due = IF t # from THEN @ + 1 ELSE @]
        ELSE sessions[t]]

\* AgentChatConsumer.handle_typing_indicator: a typing event of the client
\* is sent to the session's room as a user_typing event
HandleTypingIndicator(s, is_typing) ==
    /\ sessions[s].state = "active"
    /\ sessions[s].kind = "chat"
    /\ \A t \in MembersOf(sessions[s].room) :
          Len(sessions[t].queue) < MaxTyping /\ sessions[t].due < MaxTyping
    /\ sessions' = group_send(sessions[s].room,
                              [type |-> "user_typing", user_id |-> sessions[s].user,
                               is_typing |-> is_typing, from |-> s], s)
    /\ UNCHANGED groups
    /\ UNCHANGED notSession

\* AgentChatConsumer.user_typing, the handler of a user_typing event taken
\* from the session's channel: the typing_indicator is sent to the client
\* unless the event's user_id is the session's own user
UserTyping(s) ==
    /\ sessions[s].state = "active"
    /\ sessions[s].queue # <<>>
    /\ LET event == Head(sessions[s].queue)
       IN sessions' = [sessions EXCEPT
             ![s].queue = Tail(@),
             ![s].sent = IF event.user_id # sessions[s].user
                         THEN Append(@, [type |-> "typing_indicator",
                                         user_id |-> event.user_id,
                                         is_typing |-> event.is_typing,
                                         from |-> event.from])
                         ELSE @]
    /\ UNCHANGED groups
    /\ UNCHANGED notSession

NextSession ==
    \/ \E s \in SessionIds, kind \in ConsumerKinds, agent \in AgentIds, user \in Users,
          authenticated \in BOOLEAN, voiceEnabled \in BOOLEAN :
              Connect(s, kind, agent, user, authenticated, voiceEnabled)
    \/ \E s \in SessionIds : Disconnect(s)
    \/ \E s \in SessionIds, is_typing \in BOOLEAN : HandleTypingIndicator(s, is_typing)
    \/ \E s \in SessionIds : UserTyping(s)

(***************************************************************************)
(* The generation context: get_conversation_history of the chat consumer   *)
(* and the history part of AgentEngine._prepare_messages.                  *)
(***************************************************************************)
HistSenders == {"user", "agent"}
HistContents == {"x", "y"}

NoHistory == [op |-> "none", limit |-> 0, count |-> 0, value |-> <<>>]

InitHistory ==
    /\ histLog = <<>>
    /\ histResult = NoHistory

\* Message.objects.filter(conversation=conversation): the rows, in no order
Table == {histLog[i] : i \in 1..Len(histLog)}

\* .order_by('-created_at'): the latest row first
RECURSIVE OrderByCreatedDesc(_)
OrderByCreatedDesc(rows) ==
    IF rows = {} THEN <<>>
    ELSE LET latest == CHOOSE r \in rows : \A q \in rows : q.created_at <= r.created_at
         IN <<latest>> \o OrderByCreatedDesc(rows \ {latest})

\* [:limit]
Slice(seq, limit) == SubSeq(seq, 1, IF limit < Len(seq) THEN limit ELSE Len(seq))

Reversed_Not(seq) == seq

\* reversed(messages)
Reversed(seq) == [i \in 1..Len(seq) |-> seq[Len(seq) + 1 - i]]

\* {'role': 'user' if message.sender == 'user' else 'assistant', 'content': ...}
HistoryEntry(m) ==
    [role |-> IF m.sender = "user" THEN "user" ELSE "assistant", content |-> m.content]

\* AgentChatConsumer.get_conversation_history(conversation, limit)
get_conversation_history(limit) ==
    LET messages == Reversed(Slice(OrderByCreatedDesc(Table), limit))
    IN [i \in 1..Len(messages) |-> HistoryEntry(messages[i])]

\* {'role': msg.role, 'content': msg.content}: the row's role as stored
MessageEntry(m) == [role |-> m.sender, content |-> m.content]

\* the history part of AgentEngine._prepare_messages: the last rows when
\* the agent's memory is enabled, none otherwise
recent_messages(memory_enabled) ==
    IF memory_enabled
    THEN LET messages == Reversed(Slice(OrderByCreatedDesc(Table), HistoryWindow))
         IN [i \in 1..Len(messages) |-> MessageEntry(messages[i])]
    ELSE <<>>

\* a message is stored in the conversation; created_at is the time of the
\* write, later than that of every earlier row
SaveHistoryMessage(sender, content) ==
    /\ Len(histLog) < MaxMessages
    /\ histLog' = Append(histLog, [created_at |-> Len(histLog) + 1,
                                   sender |-> sender, content |-> content])
    /\ UNCHANGED histResult
    /\ UNCHANGED notHistory

\* history = await self.get_conversation_history(conversation, limit)
ReadHistory(limit) ==
    /\ histResult' = [op |-> "history", limit |-> limit, count |-> Len(histLog),
                      value |-> get_conversation_history(limit)]
    /\ UNCHANGED histLog
    /\ UNCHANGED notHistory

\* messages = await self._prepare_messages(conversation, user_message)
PrepareMessages(memory_enabled) ==
    /\ histResult' = [op |-> IF memory_enabled THEN "prepare" ELSE "prepare_no_memory",
                      limit |-> HistoryWindow, count |-> Len(histLog),
                      value |-> recent_messages(memory_enabled)]
    /\ UNCHANGED histLog
    /\ UNCHANGED notHistory

NextHistory ==
    \/ \E sender \in HistSenders, content \in HistContents :
          SaveHistoryMessage(sender, content)
    \/ \E limit \in 0..MaxLimit : ReadHistory(limit)
    \/ \E memory_enabled \in BOOLEAN : PrepareMessages(memory_enabled)

(***************************************************************************)
(* AIResponseCache (agents/websocket_utils.py), the cache of AI responses  *)
(* kept for the WebSocket consumers. Texts are sequences of characters.    *)
(***************************************************************************)
WsAgents == { <<"a">>, <<"b">> }
WsMessages == { <<"h">>, <<"i">> }
\* the context of a request: none (the empty text), or a conversation so far
WsContexts == { <<>>, <<"c">>, <<"d">> }

\* the response generated for a request: it answers that agent's reading
\* of that message in that context
Response(agent_id, message, context) ==
    [agent_id |-> agent_id, message |-> message, context |-> context]

\* AIResponseCache._get_cache_key(agent_id, message, context_hash=None)
_get_cache_key(agent_id, message, context_hash) ==
    LET content == agent_id \o <<":">> \o message
    IN <<"ai_response",
         md5(IF context_hash # <<>> THEN content \o <<":">> \o context_hash ELSE content)>>

\* the key get_cached_response and cache_response compute: both call
\* self._get_cache_key(agent_id, message), without the context
WsKey(agent_id, message, context) == _get_cache_key(agent_id, message, <<>>)

WsKeys == {WsKey(a, m, <<>>) : a \in WsAgents, m \in WsMessages}

NoWsCall == [op |-> "none", agent_id |-> <<>>, message |-> <<>>, context |-> <<>>,
             result |-> None]

InitWsCache ==
    /\ wsCache = [key \in WsKeys |-> None]
    /\ wsLast = NoWsCall

\* AIResponseCache.cache_response(agent_id, message, response, context)
WsCacheResponse(agent_id, message, context) ==
    /\ wsCache' = [wsCache EXCEPT ![WsKey(agent_id, message, context)] =
                      Response(agent_id, message, context)]
    /\ wsLast' = [NoWsCall EXCEPT !.op = "cache_response", !.agent_id = agent_id,
                                  !.message = message, !.context = context]
    /\ UNCHANGED notWsCache

\* AIResponseCache.get_cached_response(agent_id, message, context)
WsGetCachedResponse(agent_id, message, context) ==
    /\ wsLast' = [op |-> "get_cached_response", agent_id |-> agent_id,
                  message |-> message, context |-> context,
                  result |-> wsCache[WsKey(agent_id, message, context)]]
    /\ UNCHANGED wsCache
    /\ UNCHANGED notWsCache

\* an entry's timeout (cache_timeout = 300) elapses
WsExpire(key) ==
    /\ wsCache[key] # None
    /\ wsCache' = [wsCache EXCEPT ![key] = None]
    /\ UNCHANGED wsLast
    /\ UNCHANGED notWsCache

NextWsCache ==
    \/ \E a \in WsAgents, m \in WsMessages, ctx \in WsContexts : WsCacheResponse(a, m, ctx)
    \/ \E a \in WsAgents, m \in WsMessages, ctx \in WsContexts : WsGetCachedResponse(a, m, ctx)
    \/ \E key \in WsKeys : WsExpire(key)

(***************************************************************************)
(* AgentEngine.process_message and the conversation it works on            *)
(* (_get_or_create_conversation, _prepare_messages, _save_message).        *)
(***************************************************************************)
\* the agent ids of the engines that are called
EngineAgents == {"neochat", "personax"}
\* conversation_id of a call: 0 is "none given"; an id above the number of
\* conversations names no conversation
EngineConvArgs == 0..MaxEngineCalls

NoEngineCall ==
    [op |-> "none", agent_id |-> "", user |-> "", conversation_id |-> 0,
     conversation |-> 0, created |-> FALSE, history |-> <<>>, calls |-> 0]

InitEngine ==
    /\ engConvs = <<>>
    /\ engLast = NoEngineCall

\* Conversation.objects.get(id=conversation_id, user=user): the id of the
\* conversation, 0 for DoesNotExist or no id given. The engine's agent is not
\* part of the lookup.
get_conversation(id, user, agent_id) ==
    IF id \in 1..Len(engConvs) /\ engConvs[id].user = user THEN id ELSE 0

\* AgentEngine.process_message(user_message, conversation_id, user) of the
\* engine of agent_id: the conversation is looked up or created with
\* agent_name = self.agent_id, its messages are read for the context, and the
\* user message and the response are appended to it. When a call made on the
\* way raises (ok is false), "except Exception" returns the error; the model
\* lets it raise before anything was written.
ProcessMessage(agent_id, user, conversation_id, ok) ==
    LET found == get_conversation(conversation_id, user, agent_id)
        conversation == IF found # 0 THEN found ELSE Len(engConvs) + 1
        table == IF found # 0 THEN engConvs
                 ELSE Append(engConvs, [user |-> user, agent_name |-> agent_id,
                                        messages |-> <<>>])
        exchange == << [role |-> "user", user |-> user, agent_id |-> agent_id],
                       [role |-> "assistant", user |-> user, agent_id |-> agent_id] >>
        call == [NoEngineCall EXCEPT !.agent_id = agent_id, !.user = user,
                                     !.conversation_id = conversation_id,
                                     !.calls = engLast.calls + 1]
    IN /\ engLast.calls < MaxEngineCalls
       /\ IF ok
          THEN /\ engConvs' = [table EXCEPT ![conversation].messages = @ \o exchange]
               /\ engLast' = [call EXCEPT !.op = "processed",
                                          !.conversation = conversation,
                                          !.created = (found = 0),
                                          !.history = table[conversation].messages]
          ELSE /\ engLast' = [call EXCEPT !.op = "error"]
               /\ UNCHANGED engConvs
       /\ UNCHANGED notEngine

NextEngine ==
    \E agent_id \in EngineAgents, user \in Users, conversation_id \in EngineConvArgs,
       ok \in BOOLEAN : ProcessMessage(agent_id, user, conversation_id, ok)

(***************************************************************************)
(* rate_limit_websocket (agents/websocket_utils.py): the wrapper around a  *)
(* consumer's handler. The consumers of one user may run in different      *)
(* worker processes that share the cache (Redis in production).            *)
(***************************************************************************)
\* the consumers' worker processes
Workers == {"w1", "w2"}

\* a cache entry: the count stored and the time it expires. created (the
\* time the entry began to exist) and ran (the handler runs since then) are
\* not stored; they record the history of the entry for the claims.
NoEntry == [count |-> 0, expires |-> 0, created |-> 0, ran |-> 0]

NoLimitedCall ==
    [pc |-> "idle", user |-> "u1", authenticated |-> FALSE, current_count |-> 0,
     outcome |-> "none", at |-> 0, windowStart |-> 0]

InitLimiter ==
    /\ rlCache = [u \in Users |-> NoEntry]
    /\ rlCalls = [k \in Workers |-> NoLimitedCall]
    /\ rlClock = 0
    /\ rlCount = 0

\* the entry has not expired
Live(entry) == rlClock < entry.expires

\* cache.get(cache_key, 0)
cache_get(u) == IF Live(rlCache[u]) THEN rlCache[u].count ELSE 0

\* the wrapper up to its check: an unauthenticated user's call goes
\* straight to the handler; otherwise the count is read and a call at or
\* above the limit is answered with 'Rate limit exceeded' and returns
BeginLimitedCall(k, u, authenticated) ==
    LET current_count == cache_get(u)
        call == [NoLimitedCall EXCEPT !.user = u, !.authenticated = authenticated,
                                      !.at = rlClock]
    IN /\ rlCalls[k].pc = "idle"
       /\ rlCount < MaxLimitedCalls
       /\ rlCount' = rlCount + 1
       /\ rlCalls' = [rlCalls EXCEPT ![k] =
                        IF ~authenticated
                        THEN [call EXCEPT !.pc = "running", !.outcome = "ran"]
                        ELSE IF current_count >= RateLimit
                        THEN [call EXCEPT !.outcome = "rate_limited",
                                          !.current_count = current_count,
                                          !.windowStart = rlCache[u].created]
                        ELSE [call EXCEPT !.pc = "counted",
                                          !.current_count = current_count]]
       /\ UNCHANGED <<rlCache, rlClock>>
       /\ UNCHANGED notLimiter

\* cache.set(cache_key, current_count + 1, 60), and the handler is called
StoreCountAndRun(k) ==
    LET call == rlCalls[k]
        u == call.user
        entry == rlCache[u]
    IN /\ call.pc = "counted"
       /\ rlCache' = [rlCache EXCEPT ![u] =
                        [count |-> call.current_count + 1,
                         expires |-> rlClock + RateWindow,
                         created |-> IF Live(entry) THEN entry.created ELSE rlClock,
                         ran |-> IF Live(entry) THEN entry.ran + 1 ELSE 1]]
       /\ rlCalls' = [rlCalls EXCEPT ![k] = [call EXCEPT !.pc = "running",
                                                         !.outcome = "ran"]]
       /\ UNCHANGED <<rlClock, rlCount>>
       /\ UNCHANGED notLimiter

\* the handler returns
LimitedHandlerReturns(k) ==
    /\ rlCalls[k].pc = "running"
    /\ rlCalls' = [rlCalls EXCEPT ![k].pc = "idle"]
    /\ UNCHANGED <<rlCache, rlClock, rlCount>>
    /\ UNCHANGED notLimiter

\* time passes
LimiterTick ==
    /\ rlClock < MaxTicks
    /\ rlClock' = rlClock + 1
    /\ UNCHANGED <<rlCache, rlCalls, rlCount>>
    /\ UNCHANGED notLimiter

NextLimiter ==
    \/ \E k \in Workers, u \in Users, authenticated \in BOOLEAN :
          BeginLimitedCall(k, u, authenticated)
    \/ \E k \in Workers : StoreCountAndRun(k)
    \/ \E k \in Workers : LimitedHandlerReturns(k)
    \/ LimiterTick

(***************************************************************************)
(* WebSocketConnectionManager (agents/websocket_utils.py).                 *)
(***************************************************************************)
ManagerUsers == {"u1", "u2"}
ChannelNames == {"ch1", "ch2"}
ConnectionTypes == {"chat", "voice"}

\* the empty dict
NoConnections == [x \in {} |-> {}]

NoManagerCall == [op |-> "none", user_id |-> "", channel_name |-> ""]

InitManager ==
    /\ active_connections = NoConnections
    /\ mgrClock = 0
    /\ mgrOpen = {}
    /\ mgrLast = NoManagerCall

\* d[key] = value on a dict
SetItem(d, key, value) == [k \in DOMAIN d \cup {key} |-> IF k = key THEN value ELSE d[k]]

\* d.pop(key, None) / del d[key]: the dict without the key
DelItem(d, key) == [k \in DOMAIN d \ {key} |-> d[k]]

CleanUp_Never(connections, user_id) == connections

\* "if not self.active_connections[user_id]: del self.active_connections[user_id]"
CleanUp(connections, user_id) ==
    IF DOMAIN connections[user_id] = {} THEN DelItem(connections, user_id)
    ELSE connections

\* asyncio.get_event_loop().time() during the call
LoopTime == mgrClock + 1

ManagerCall(op, user_id, channel_name) ==
    /\ mgrClock < MaxManagerCalls
    /\ mgrClock' = mgrClock + 1
    /\ mgrLast' = [op |-> op, user_id |-> user_id, channel_name |-> channel_name]

\* WebSocketConnectionManager.add_connection(user_id, channel_name, connection_type)
AddConnection(user_id, channel_name, connection_type) ==
    LET mine == IF user_id \in DOMAIN active_connections
                THEN active_connections[user_id] ELSE NoConnections
        info == [type |-> connection_type, connected_at |-> LoopTime,
                 last_activity |-> LoopTime]
    IN /\ ManagerCall("add_connection", user_id, channel_name)
       /\ active_connections' =
             SetItem(active_connections, user_id, SetItem(mine, channel_name, info))
       /\ mgrOpen' = mgrOpen \cup {<<user_id, channel_name>>}
       /\ UNCHANGED notManager

\* WebSocketConnectionManager.remove_connection(user_id, channel_name)
RemoveConnection(user_id, channel_name) ==
    /\ ManagerCall("remove_connection", user_id, channel_name)
    /\ active_connections' =
          IF user_id \in DOMAIN active_connections
          THEN CleanUp(SetItem(active_connections, user_id,
                               DelItem(active_connections[user_id], channel_name)),
                       user_id)
          ELSE active_connections
    /\ mgrOpen' = mgrOpen \ {<<user_id, channel_name>>}
    /\ UNCHANGED notManager

\* WebSocketConnectionManager.update_activity(user_id, channel_name)
UpdateActivity(user_id, channel_name) ==
    /\ ManagerCall("update_activity", user_id, channel_name)
    /\ active_connections' =
          IF /\ user_id \in DOMAIN active_connections
             /\ channel_name \in DOMAIN active_connections[user_id]
          THEN [active_connections EXCEPT ![user_id][channel_name].last_activity = LoopTime]
          ELSE active_connections
    /\ UNCHANGED mgrOpen
    /\ UNCHANGED notManager

\* WebSocketConnectionManager.is_user_online(user_id)
is_user_online(user_id) ==
    user_id \in DOMAIN active_connections /\ DOMAIN active_connections[user_id] # {}

NextManager ==
    \/ \E u \in ManagerUsers, ch \in ChannelNames, t \in ConnectionTypes :
          AddConnection(u, ch, t)
    \/ \E u \in ManagerUsers, ch \in ChannelNames : RemoveConnection(u, ch)
    \/ \E u \in ManagerUsers, ch \in ChannelNames : UpdateActivity(u, ch)

Next ==
    \/ \E c \in Conns, content \in Contents, convArg \in ConvArgs :
          Receive(c, content, convArg)
    \/ \E c \in Conns, dbOk \in BOOLEAN : GetOrCreateConversation(c, dbOk)
    \/ \E c \in Conns, dbOk \in BOOLEAN : SaveUserMessage(c, dbOk)
    \/ \E c \in Conns, dbOk \in BOOLEAN, ok \in BOOLEAN : Generate(c, dbOk, ok)
    \/ \E c \in Conns, dbOk \in BOOLEAN : SaveAgentMessage(c, dbOk)
    \/ \E c \in Conns, dbOk \in BOOLEAN : IncrementAndSend(c, dbOk)
    \/ \E u \in Users : InvoicePaymentSucceeded(u)

\* the chat consumer under every billing event
NextBilling ==
    \/ Next
    \/ \E u \in Users : InvoicePaymentFailed(u)
    \/ \E u \in Users : PeriodElapses(u)

\* a chat with nothing connected to it, for the other components' models
IdleChat ==
    /\ conn = [c \in Conns |-> [user |-> "u1", agent |-> "a1"]]
    /\ pc = [c \in Conns |-> "idle"]
    /\ cur = [c \in Conns |-> NoRequest]
    /\ nextReq = MaxRequests + 1
    /\ sub = [v \in Users |-> NoSub]
    /\ convs = <<>>
    /\ outbox = [c \in Conns |-> <<>>]
    /\ dispatches = [u \in Users |-> 0]

\* the components the chat consumer's handler does not use, at rest
InitOthers ==
    InitPool /\ InitCache /\ InitStream /\ InitSession /\ InitHistory /\ InitWsCache /\ InitEngine /\ InitLimiter /\ InitManager

Init == InitChat /\ InitOthers

InitIdleChat == IdleChat /\ InitOthers

SpecPool == InitIdleChat /\ [][NextPool]_vars

SpecCache == InitIdleChat /\ [][NextCache]_vars

SpecStream == InitIdleChat /\ [][NextStream]_vars

SpecSession == InitIdleChat /\ [][NextSession]_vars

SpecHistory == InitIdleChat /\ [][NextHistory]_vars

SpecWsCache == InitIdleChat /\ [][NextWsCache]_vars

SpecEngine == InitIdleChat /\ [][NextEngine]_vars

SpecLimiter == InitIdleChat /\ [][NextLimiter]_vars

SpecManager == InitIdleChat /\ [][NextManager]_vars

Spec == Init /\ [][Next]_vars

SpecBilling == Init /\ [][NextBilling]_vars

\* the chat consumer with clients that also send texts over the input limit
NextOversized ==
    \/ Next
    \/ \E c \in Conns, content \in LongContents, convArg \in ConvArgs :
          Receive(c, content, convArg)

SpecOversized == Init /\ [][NextOversized]_vars

\* The handler of a connection runs to its next suspension point. The event
\* loop resumes every coroutine whose awaited call (a database call in a
\* worker thread, the AI service call) has returned.
Handler(c) ==
    \/ \E dbOk \in BOOLEAN : GetOrCreateConversation(c, dbOk)
    \/ \E dbOk \in BOOLEAN : SaveUserMessage(c, dbOk)
    \/ \E dbOk \in BOOLEAN, ok \in BOOLEAN : Generate(c, dbOk, ok)
    \/ \E dbOk \in BOOLEAN : SaveAgentMessage(c, dbOk)
    \/ \E dbOk \in BOOLEAN : IncrementAndSend(c, dbOk)

FairSpec == Spec /\ \A c \in Conns : WF_vars(Handler(c))

(***************************************************************************)
(* Claims about the chat consumer.                                         *)
(***************************************************************************)

\* the user_message connection c handles, or handled last, went through the
\* rate check
RateChecked(c) == cur[c].sentAtCheck >= 0

\* C1: for a user whose plan limit is N, a user_message is let through the
\* rate check exactly when fewer than N calls were dispatched for the user
\* since the usage counter was last reset: the first N are dispatched, the
\* next is answered with the quota error, and after a reset the next one is
\* dispatched again.
C1_WindowQuota ==
    \A c \in Conns :
        (RateChecked(c) /\ sub[conn[c].user].exists)
            => (cur[c].outcome = "quota" <=> cur[c].sentAtCheck >= PlanLimit)

\* C2: under every interleaving of the connections of one user, the calls
\* dispatched for the user since the last reset never exceed the plan limit.
C2_DispatchesWithinLimit ==
    \A u \in Users : sub[u].exists => dispatches[u] <= PlanLimit

\* a user_message was turned away: by validation (empty text), because the
\* agent is not found, or by the rate check
Rejections == {"invalid", "no_agent", "quota"}

\* C3: the step that rejects a user_message (validation or rate check) writes
\* nothing to the conversation store, hands nothing to the AI service and
\* leaves the usage counter alone; the handler is over, and the client got
\* exactly one event for the message, an error.
C3_RejectionHasNoEffect ==
    [][\A c \in Conns :
          (cur'[c].req # cur[c].req /\ cur'[c].outcome \in Rejections)
              => /\ convs' = convs
                 /\ sub' = sub
                 /\ dispatches' = dispatches
                 /\ ~cur'[c].dispatched /\ ~cur'[c].created
                 /\ pc'[c] = "idle"
                 /\ Len(outbox'[c]) = 1
                 /\ outbox'[c][1].type = "error"
                 /\ outbox'[c][1].req = cur'[c].req]_vars

\* C3 witness: a user_message was rejected by the rate check while the store
\* holds a conversation
C3_Witness ==
    \E c \in Conns : cur[c].outcome = "quota" /\ Len(convs) > 0

\* the messages of one conversation are in the order given by lt on the
\* requests they belong to
MessagesOrdered(same(_, _)) ==
    \A i \in 1..Len(convs) :
        LET ms == convs[i].messages IN
        \A j \in 1..Len(ms), k \in 1..Len(ms) :
            (j < k /\ same(ms[j], ms[k])) => ms[j].req <= ms[k].req

AnyTwo(m1, m2) == TRUE

SameConnection(m1, m2) == m1.conn = m2.conn

\* within a conversation the user message of an exchange precedes its agent
\* message
UserBeforeAgent ==
    \A i \in 1..Len(convs) :
        LET ms == convs[i].messages IN
        \A j \in 1..Len(ms), k \in 1..Len(ms) :
            (j < k /\ ms[j].req = ms[k].req)
                => (ms[j].sender = "user" /\ ms[k].sender = "agent")

\* C4 as claimed: in every conversation the messages are in the receipt
\* order of the user_messages they belong to, whoever sent them.
C4_SubmissionOrder ==
    MessagesOrdered(AnyTwo) /\ UserBeforeAgent

\* C4 as amended: the user_messages of one connection are handled one after
\* the other, so in every conversation the messages that come from one
\* connection are in the receipt order of their user_messages, the user
\* message of an exchange before its agent message.
C4_SessionOrder ==
    MessagesOrdered(SameConnection) /\ UserBeforeAgent

\* C4 witness: a conversation holds both exchanges of one connection
C4_Witness ==
    \E i \in 1..Len(convs) :
        LET ms == convs[i].messages IN
        /\ Len(ms) = 4
        /\ \A j \in 1..4 : ms[j].conn = ms[1].conn
        /\ ms[1].req # ms[4].req

\* the exchange of request r in conversation i: a user message with the
\* stripped text and, after it, an agent message
ExchangeStored(i, r, text) ==
    LET ms == convs[i].messages IN
    \E j \in 1..Len(ms), k \in 1..Len(ms) :
        /\ j < k
        /\ ms[j].req = r /\ ms[j].sender = "user" /\ ms[j].content = text
        /\ ms[k].req = r /\ ms[k].sender = "agent"

\* connection c answered its user_message, which named no conversation
AnsweredNew(c) ==
    cur[c].outcome = "completed" /\ cur[c].convArg = 0

\* C9, what has happened when the agent_message is sent: exactly one
\* conversation was created for the user_message, the user message and
\* after it the agent message are in it, and the agent_message event names it.
C9_NewConversationState ==
    \A c \in Conns :
        AnsweredNew(c) =>
            LET r == cur[c].req
                i == cur[c].conv
            IN /\ cur[c].created
               /\ i \in 1..Len(convs)
               /\ convs[i].createdBy = r
               /\ convs[i].user = conn[c].user /\ convs[i].agent = conn[c].agent
               /\ Cardinality({n \in 1..Len(convs) : convs[n].createdBy = r}) = 1
               /\ ExchangeStored(i, r, cur[c].content)
               /\ outbox[c] # <<>>
               /\ outbox[c][Len(outbox[c])] =
                     [type |-> "agent_message", kind |-> "", req |-> r, conv |-> i]

C15_InputValidated ==
    \A c \in Conns :
        cur[c].req # 0 =>
            /\ cur[c].outcome = "invalid" <=> ~validate_input(cur[c].content)
            /\ ~validate_input(cur[c].content) => ~cur[c].dispatched

\* the handling of connection c's user_message ran into an error: a database
\* call raised (the handler's except branch), or the AI service or the
\* history read raised (generate_ai_response's except branch)
HandlerFailed(c) == cur[c].outcome = "failed"

GenerationFailed(c) == cur[c].response = ApologyText

\* the last event sent to connection c
LastEvent(c) == outbox[c][Len(outbox[c])]

\* the next user_message of connection c is let through to the handler's
\* database calls exactly when it is not empty, its agent is found and the
\* rate check allows it
AcceptedNormally(c) ==
    cur'[c].outcome = "pending"
        <=> /\ cur'[c].content # <<>>
            /\ conn[c].agent \in ActiveAgents
            /\ check_api_limits(conn[c].user)

\* C11: a provider or persistence error while a user_message is handled
\* does not end the session. The handler returns to the receive loop with
\* the error reported to the client (an error event, or the apology sent as
\* the agent_message), and the next user_message of the connection is
\* handled as any other.
C11_SessionSurvivesErrors ==
    /\ [](\A c \in Conns :
            /\ pc[c] \in {"idle", "get_conversation", "save_user", "generate",
                          "save_ai", "increment"}
            /\ HandlerFailed(c) =>
                  /\ pc[c] = "idle"
                  /\ outbox[c] # <<>>
                  /\ LastEvent(c) = ErrorEvent("failed", cur[c].req)
            /\ (GenerationFailed(c) /\ cur[c].outcome = "completed") =>
                  /\ pc[c] = "idle"
                  /\ LastEvent(c).type = "agent_message"
                  /\ LastEvent(c).req = cur[c].req)
    /\ [][\A c \in Conns :
            (cur'[c].req # cur[c].req /\ (HandlerFailed(c) \/ GenerationFailed(c)))
                => AcceptedNormally(c)]_vars

\* C11 witness: a connection whose earlier user_message was stored but never
\* answered (its handler failed after the write) has answered its next one
C11_Witness ==
    \E c \in Conns, i \in 1..Len(convs) :
        LET ms == convs[i].messages IN
        /\ cur[c].outcome = "completed"
        /\ cur[c].response = ReplyText
        /\ \E j \in 1..Len(ms) :
              /\ ms[j].conn = c /\ ms[j].sender = "user" /\ ms[j].req < cur[c].req
              /\ \A k \in 1..Len(ms) : ms[k].req = ms[j].req => ms[k].sender = "user"

\* an agent message of request r is stored in some conversation
AgentMessageStored(r) ==
    \E i \in 1..Len(convs) :
        \E j \in 1..Len(convs[i].messages) :
            convs[i].messages[j].req = r /\ convs[i].messages[j].sender = "agent"

\* C19: when the AI service call made for a user_message fails, no agent
\* message is stored for the exchange, and what the client is sent when the
\* handler is over is an error event.
C19_ProviderFailureSurfaced ==
    \A c \in Conns :
        (cur[c].dispatched /\ GenerationFailed(c)) =>
            /\ ~AgentMessageStored(cur[c].req)
            /\ pc[c] = "idle" => (outbox[c] # <<>> /\ LastEvent(c).type = "error")

\* the events of connection c's outbox before position k
EventsBefore(c, k) == {outbox[c][j] : j \in 1..(k - 1)}

\* seq1 is an initial part of seq2
IsPrefix(seq1, seq2) ==
    Len(seq1) <= Len(seq2) /\ SubSeq(seq2, 1, Len(seq1)) = seq1

\* C21: the events sent to a session are those of the user_message it is
\* handling, in the order the handler sent them: an agent_message comes after
\* the agent_typing of its user_message and after the agent message it names
\* was stored, and nothing follows it; events are only ever added at the end,
\* by the running handler, and the next user_message of the session begins
\* only when the handler of the one before has returned.
C21_EventsInEmissionOrder ==
    /\ [](\A c \in Conns : \A k \in 1..Len(outbox[c]) :
            LET e == outbox[c][k] IN
            /\ e.req = cur[c].req
            /\ e.type = "agent_message" =>
                  /\ \E t \in EventsBefore(c, k) :
                        t.type = "agent_typing" /\ t.req = e.req
                  /\ e.conv \in 1..Len(convs)
                  /\ \E j \in 1..Len(convs[e.conv].messages) :
                        /\ convs[e.conv].messages[j].req = e.req
                        /\ convs[e.conv].messages[j].sender = "agent"
                  /\ k = Len(outbox[c]))
    /\ [][\A c \in Conns :
            /\ cur'[c].req # cur[c].req =>
                  (pc[c] = "idle" /\ cur'[c].req > cur[c].req)
            /\ (cur'[c].req = cur[c].req /\ outbox'[c] # outbox[c]) =>
                  (pc[c] # "idle" /\ IsPrefix(outbox[c], outbox'[c]))]_vars

\* C21 witness: a session that was sent the agent_message of an earlier
\* user_message has the agent_typing and the agent_message of its next one
C21_Witness ==
    \E c \in Conns, i \in 1..Len(convs) :
        /\ Len(outbox[c]) = 2
        /\ outbox[c][1].type = "agent_typing"
        /\ outbox[c][2].type = "agent_message"
        /\ \E j \in 1..Len(convs[i].messages) :
              LET m == convs[i].messages[j] IN
              m.conn = c /\ m.sender = "agent" /\ m.req < cur[c].req

\* the step ends the handling of connection c's user_message
HandlerEnds(c) == pc[c] # "idle" /\ pc'[c] = "idle"

\* the step is a reset of user u's usage counter (reset_usage)
UsageReset(u) == dispatches[u] > 0 /\ dispatches'[u] = 0

\* C22: the usage counter of a user grows by exactly one for every call
\* dispatched to the AI service for the user and by nothing else: the handler
\* of a user_message that dispatched a call has added one to the counter when
\* it ends, also when a later database call of the handler failed, and the
\* handler of one that dispatched none has added nothing.
C22_UsageCountsDispatches ==
    [][\A c \in Conns :
          LET u == conn[c].user IN
          (HandlerEnds(c) /\ sub[u].exists /\ ~UsageReset(u)) =>
              sub'[u].used = sub[u].used + (IF cur[c].dispatched THEN 1 ELSE 0)]_vars

\* a user_message of connection c is received in this step
Received(c) == cur'[c].req # cur[c].req

\* C23: a user_message goes on to be dispatched only if, when it was
\* received (the rate check), its user had a subscription whose status was
\* active, whose period had not ended and whose usage was below the plan
\* limit; a valid message to a known agent passes exactly then. A user without
\* a subscription is never dispatched for, and such a message of theirs is
\* answered with the quota error.
C23_ActiveSubscriptionGates ==
    /\ [][\A c \in Conns :
            LET u == conn[c].user
                entitled == /\ sub[u].exists
                            /\ sub[u].status = "active"
                            /\ ~sub[u].ended
                            /\ sub[u].used < PlanLimit
            IN Received(c) =>
                  /\ cur'[c].outcome = "pending" => entitled
                  /\ (cur'[c].content # <<>> /\ conn[c].agent \in ActiveAgents) =>
                        /\ entitled => cur'[c].outcome = "pending"
                        /\ ~entitled =>
                              /\ cur'[c].outcome = "quota"
                              /\ outbox'[c] = <<ErrorEvent("quota", cur'[c].req)>>]_vars
    /\ [](\A c \in Conns :
            /\ cur[c].dispatched => cur[c].outcome \in {"pending", "completed", "failed"}
            /\ cur[c].outcome \in Rejections => (~cur[c].dispatched /\ pc[c] = "idle")
            /\ ~sub[conn[c].user].exists => (~cur[c].dispatched /\ pc[c] = "idle"))

\* C23 witness: a user whose usage is below the limit was answered with the
\* quota error because the subscription's period had ended
C23_Witness ==
    \E c \in Conns :
        LET u == conn[c].user IN
        /\ cur[c].outcome = "quota"
        /\ sub[u].exists /\ sub[u].status = "active" /\ sub[u].used < PlanLimit
        /\ sub[u].ended

(***************************************************************************)
(* Claims about the agent instance pool.                                   *)
(***************************************************************************)

\* C7: after any sequence of get_agent and clear_cache calls the pool holds
\* at most its capacity of entries (and each agent id at most once).
C7_PoolWithinCapacity ==
    /\ Len(agentCache) <= MaxCacheSize
    /\ Cardinality(Keys(agentCache)) = Len(agentCache)

\* C7 witness: the pool is full after an insertion that evicted
C7_Witness ==
    Len(agentCache) = MaxCacheSize /\ poolLast.evicted # {}

C29_FailedCreateLeavesPool ==
    /\ [][(poolClock' # poolClock /\ poolLast'.call = "raised")
             => /\ agentCache' = agentCache
                /\ insertedAt' = insertedAt
                /\ usedAt' = usedAt]_vars
    /\ [][(poolClock' # poolClock /\ poolLast'.agent \notin RegisteredAgents)
             => poolLast'.call = "raised"]_vars
    /\ [](Keys(agentCache) \subseteq RegisteredAgents)

\* C29 witness: a get_agent call raised while the pool was full
C29_Witness ==
    poolLast.call = "raised" /\ Len(agentCache) = MaxCacheSize

(***************************************************************************)
(* Claims about generate_response and the response cache.                  *)
(***************************************************************************)
Finished(k) == calls[k].pc = "done"

\* C6: a generate_response call (caching enabled, the cache backend
\* answering) that begins while the entry an earlier identical call cached is
\* still live returns that entry's payload, whatever it is, without invoking
\* the provider; the call that missed invoked the provider once and cached
\* exactly what it returned.
C6_SecondCallServedFromCache ==
    \A k \in Callers :
        (Finished(k) /\ calls[k].use_cache /\ calls[k].cacheError = "") =>
            /\ calls[k].liveAtStart # None =>
                  /\ calls[k].result = calls[k].liveAtStart
                  /\ calls[k].attempts = 0
            /\ (calls[k].liveAtStart = None /\ calls[k].raised = "") =>
                  /\ calls[k].attempts = 1
                  /\ calls[k].stored = calls[k].result

\* C6 witness: a call was served an entry with empty content that the other
\* caller's call had cached
C6_Witness ==
    \E k, j \in Callers :
        /\ k # j
        /\ Finished(k) /\ Finished(j)
        /\ calls[k].key = calls[j].key
        /\ calls[j].liveAtStart = None /\ calls[j].stored = calls[j].result
        /\ calls[j].result = Payload(calls[j].provider, calls[j].model, "")
        /\ calls[k].liveAtStart = calls[j].result
        /\ calls[k].result = calls[j].result
        /\ calls[k].attempts + calls[j].attempts = 1

C12_CacheFailureIsAMiss ==
    \A k \in Callers :
        (Finished(k) /\ calls[k].cacheError # "" /\ calls[k].raised = "") =>
            /\ calls[k].attempts = 1
            /\ calls[k].result # None

(***************************************************************************)
(* Claims about process_message_stream.                                    *)
(***************************************************************************)

RECURSIVE Deltas(_)
Deltas(items) ==
    IF items = <<>> THEN <<>>
    ELSE IF "chunk" \in DOMAIN Head(items)
         THEN <<Head(items).chunk>> \o Deltas(Tail(items))
         ELSE Deltas(Tail(items))

\* the last item yielded to the caller
LastYielded == stream.yielded[Len(stream.yielded)]

Terminals(items) ==
    {i \in 1..Len(items) : "completed" \in DOMAIN items[i] \/ "error" \in DOMAIN items[i]}

\* C25: a stream that was consumed to its end yielded exactly one terminal
\* item, the completion signal or an error, as its last item, with chunks
\* only before it; the completion signal is yielded only after the user
\* message and the response were stored. A stream that has not ended has
\* yielded no terminal item.
C25_OneTerminalEvent ==
    /\ stream.pc = "finished" =>
          /\ Terminals(stream.yielded) = {Len(stream.yielded)}
          /\ Len(stream.yielded) >= 1
          /\ "completed" \in DOMAIN LastYielded =>
                RowsOf(streamCount) =
                   << MessageRow(streamCount, "user", stream.user_message),
                      MessageRow(streamCount, "assistant", stream.full_response) >>
    /\ stream.pc \in {"streaming", "closed"} => Terminals(stream.yielded) = {}

\* C25 witness: a stream ended with an error after two chunks because the
\* response could not be stored
C25_Witness ==
    /\ stream.pc = "finished" /\ stream.ended = "db_error"
    /\ Len(stream.yielded) = 3
    /\ LastYielded = [error |-> TRUE]

(***************************************************************************)
(* Claims about connecting and disconnecting.                              *)
(***************************************************************************)

\* C13: a connection attempt by an unauthenticated user, on any consumer, is
\* closed with close code 4001.
C13_UnauthenticatedClosedWith4001 ==
    \A s \in SessionIds :
        (sessions[s].state = "rejected" /\ ~sessions[s].authenticated)
            => sessions[s].closeCode = UnauthenticatedCloseCode

\* C14: once disconnect has been handled for a session, its channel is a
\* member of no room; the room it joined in connect was left in the step
\* that handled the disconnect.
C14_NoRoomAfterDisconnect ==
    /\ [](\A s \in SessionIds : sessions[s].state = "closed" => RoomsOf(s) = {})
    /\ [][\A s \in SessionIds :
            (sessions[s].state = "active" /\ sessions'[s].state = "closed")
                => (RoomsOf(s) # {} /\ groups' = groups \ {m \in groups : m[2] = s})]_vars

\* C14 witness: a session that had joined the community room has
\* disconnected while the other session is still a member of that room
C14_Witness ==
    \E s, t \in SessionIds :
        /\ sessions[s].state = "closed" /\ sessions[s].room = <<"community_global">>
        /\ sessions[t].state = "active" /\ sessions[t].room = sessions[s].room
        /\ <<sessions[t].room, t>> \in groups

\* the typing_indicator events among the events sent to a session's client
TypingIndicators(s) ==
    SelectSeq(sessions[s].sent, LAMBDA e : e.type = "typing_indicator")

\* C27: a typing event of one session of an agent chat room reaches every
\* other member of the room as a typing_indicator and the sender not at all:
\* a session that has handled every event put on its channel was sent one
\* typing_indicator for each typing event of another member, and none that
\* comes from itself.
C27_TypingReachesOtherMembers ==
    \A s \in SessionIds :
        /\ (sessions[s].state = "active" /\ sessions[s].queue = <<>>) =>
              Len(TypingIndicators(s)) = sessions[s].due
        /\ \A i \in 1..Len(TypingIndicators(s)) : TypingIndicators(s)[i].from # s

\* C28: a connection that connect rejected as unauthenticated is a member
\* of no room and is sent no event, neither before nor after its disconnect
\* is handled, and its disconnect handler does not raise.
C28_RejectedConnectionIsInert ==
    \A s \in SessionIds :
        (~sessions[s].authenticated /\ sessions[s].state \in {"rejected", "closed"}) =>
            /\ RoomsOf(s) = {}
            /\ sessions[s].sent = <<>>
            /\ sessions[s].queue = <<>>
            /\ ~sessions[s].disconnectRaised

(***************************************************************************)
(* Claims about the generation context.                                    *)
(***************************************************************************)

\* the last n of the first count messages stored, oldest first, each as
\* the reader renders it
MostRecent(count, n, entry(_)) == [i \in 1..n |-> entry(histLog[count - n + i])]

\* C18: the context read from a conversation holding m messages with limit
\* L consists of exactly the min(m, L) messages stored last, oldest first.
C18_RecentMessagesOldestFirst ==
    histResult.op \in {"history", "prepare"} =>
        LET m == histResult.count
            n == IF m < histResult.limit THEN m ELSE histResult.limit
        IN histResult.value = IF histResult.op = "history"
                              THEN MostRecent(m, n, HistoryEntry)
                              ELSE MostRecent(m, n, MessageEntry)

\* C18 witness: a history of limit 2 was read from a conversation of three
\* messages whose last two differ
C18_Witness ==
    /\ histResult.op = "history" /\ histResult.limit = 2 /\ histResult.count = 3
    /\ histResult.value[1] # histResult.value[2]

(***************************************************************************)
(* Claims about the AIResponseCache.                                       *)
(***************************************************************************)

\* C20: a cached response is returned only to a request with the same
\* agent, the same message and the same context as the request it was
\* stored for.
C20_CacheKeyedOnExactContext ==
    (wsLast.op = "get_cached_response" /\ wsLast.result # None) =>
        wsLast.result = Response(wsLast.agent_id, wsLast.message, wsLast.context)

(***************************************************************************)
(* Claims about the engines' conversations.                                *)
(***************************************************************************)

\* the conversation id names a conversation of that user with that agent
OwnedFor(id, user, agent_id) ==
    /\ id \in 1..Len(engConvs)
    /\ engConvs[id].user = user
    /\ engConvs[id].agent_name = agent_id

\* C24: the conversation a message is processed in is the requesting user's
\* conversation with the agent addressed: the one the conversation_id
\* names if it is such a conversation, a new one otherwise. No conversation
\* of another user or with another agent is read for the context or
\* appended to.
C24_ForeignConversationUntouched ==
    /\ engLast.op = "processed" =>
          /\ OwnedFor(engLast.conversation, engLast.user, engLast.agent_id)
          /\ \A i \in 1..Len(engLast.history) :
                /\ engLast.history[i].user = engLast.user
                /\ engLast.history[i].agent_id = engLast.agent_id
    /\ \A id \in 1..Len(engConvs) : \A j \in 1..Len(engConvs[id].messages) :
          /\ engConvs[id].messages[j].user = engConvs[id].user
          /\ engConvs[id].messages[j].agent_id = engConvs[id].agent_name

(***************************************************************************)
(* Claims about rate_limit_websocket.                                      *)
(***************************************************************************)

\* the limiter's count for a user is within its window
WithinWindow(entry) == rlClock < entry.created + RateWindow

\* C26: in one window of the limiter (from the first call counted to one
\* window length later) the handler of an authenticated user runs at most
\* RateLimit times, however the user's calls interleave; a call is answered
\* with 'Rate limit exceeded' only within the window in which the limit was
\* reached, the window not being extended by the calls made in it; and a
\* call so answered does not run the handler.
C26_FixedWindowLimit ==
    /\ \A u \in Users : Live(rlCache[u]) =>
          /\ rlCache[u].ran <= RateLimit
          /\ WithinWindow(rlCache[u])
    /\ \A k \in Workers : rlCalls[k].outcome = "rate_limited" =>
          /\ rlCalls[k].pc = "idle"
          /\ rlCalls[k].current_count >= RateLimit
          /\ rlCalls[k].at < rlCalls[k].windowStart + RateWindow

(***************************************************************************)
(* Claims about the WebSocketConnectionManager.                            *)
(***************************************************************************)

\* the latest call named a user or a channel the manager did not know
UnknownToManager(user_id, channel_name) ==
    \/ user_id \notin DOMAIN active_connections
    \/ channel_name \notin DOMAIN active_connections[user_id]

\* C30: after any sequence of add_connection, remove_connection and
\* update_activity calls no user id maps to an empty connection map, a user
\* is online exactly when one of the user's connections was added and not
\* removed since, and a remove_connection or update_activity that names an
\* unknown user or channel leaves the connections as they were.
C30_ConnectionsConsistent ==
    /\ [](\A u \in DOMAIN active_connections : DOMAIN active_connections[u] # {})
    /\ [](\A u \in ManagerUsers :
            is_user_online(u) <=> (\E ch \in ChannelNames : <<u, ch>> \in mgrOpen))
    /\ [][(/\ mgrClock' # mgrClock
           /\ mgrLast'.op \in {"remove_connection", "update_activity"}
           /\ UnknownToManager(mgrLast'.user_id, mgrLast'.channel_name))
             => active_connections' = active_connections]_vars

\* C30 witness: a user's only connection was removed while another user
\* is still connected
C30_Witness ==
    /\ mgrLast.op = "remove_connection"
    /\ mgrLast.user_id \notin DOMAIN active_connections
    /\ mgrOpen # {}
    /\ \A m \in mgrOpen : m[1] # mgrLast.user_id

====
